---- MODULE Spec2Model ----
(***************************************************************************)
(* aws-resource-exporter, main.go: configuration loading and defaulting,   *)
(* collector setup (sessions, exporters, refresh loops), registration, the *)
(* HTTP listener goroutine and the signal/select wait of run().            *)
(*                                                                         *)
(* Durations are counted in seconds.  A *time.Duration is modelled as a    *)
(* sequence of length at most one: <<>> is the nil pointer, <<d>> points   *)
(* to d.                                                                   *)
(***************************************************************************)
EXTENDS Integers, Sequences, FiniteSets, TLC

VARIABLES
    file,         \* the config file on disk: [readable, valid, doc]
    pc,           \* position of the main goroutine inside run()/setupCollectors()
    config,       \* *Config returned by loadExporterConfiguration
    loadErr,      \* whether the last loadExporterConfiguration call returned an error
    loads,        \* number of loadExporterConfiguration calls made
    sessions,     \* vpcSessions / rdsSessions / ec2Sessions / sess: regions of the sessions built
    exporters,    \* per kind: <<>> or <<client regions handed to New<Kind>Exporter>>
    collectors,   \* the local slice `collectors` of setupCollectors
    registered,   \* the default prometheus registry, in registration order
    loop,         \* per kind: state of its CollectLoop goroutine
    launched,     \* per kind: number of `go CollectLoop()` statements executed
    sessionErr,   \* some session.NewSession call has returned an error
    listener,     \* the goroutine running srv.ListenAndServe
    srvc,         \* channel srvc: "open" or "closed"
    notified,     \* signal.Notify(term, ...) has been called
    term,         \* number of signals buffered in channel term (capacity 1)
    exit,         \* <<>> while the process runs, <<status>> once it has exited
    scraped,      \* collectors gathered by the last served scrape
    cache,        \* Metric Cache: key -> <<>> or <<CacheEntry>>
    cloop,        \* per key: its refresh loop, "idle" or "fetching"
    now,          \* clock read by the refresh loop
    refreshErrors,\* self-metrics: failed fetches per key
    lastGood,     \* per key: snapshot written by the last successful fetch (<<>> if none)
    consecFails   \* per key: failed fetches since the last successful one

vars == <<file, pc, config, loadErr, loads, sessions, exporters, collectors,
          registered, loop, launched, sessionErr, listener, srvc, notified,
          term, exit, scraped, cache, cloop, now, refreshErrors, lastGood, consecFails>>

mainVars == <<pc, config, loadErr, loads, sessions, exporters, collectors,
              registered, launched, sessionErr, notified, exit>>
cacheVars == <<cache, cloop, now, refreshErrors, lastGood, consecFails>>

----------------------------------------------------------------------------
(* Configuration model, main.go lines 44-129 *)

Kinds == {"vpc", "rds", "ec2", "route53"}
RegionalKinds == {"vpc", "rds", "ec2"}
Regions == {"us-east-1", "us-west-2"}

Nil == <<>>

durationPtr(duration) == <<duration>>

DefaultCacheTTL == 35
DefaultInterval == 15
DefaultTimeout == 10

\* The zero value of Config, which yaml.Unmarshal fills in.
ZeroConfig ==
    [ RdsConfig     |-> [Enabled |-> FALSE, Interval |-> Nil, CacheTTL |-> Nil,
                         Regions |-> <<>>],
      VpcConfig     |-> [Enabled |-> FALSE, Interval |-> Nil, CacheTTL |-> Nil,
                         Timeout |-> Nil, Regions |-> <<>>],
      Route53Config |-> [Enabled |-> FALSE, Interval |-> Nil, CacheTTL |-> Nil,
                         Timeout |-> Nil, Region |-> ""],
      EC2Config     |-> [Enabled |-> FALSE, Interval |-> Nil, CacheTTL |-> Nil,
                         Timeout |-> Nil, Regions |-> <<>>] ]

\* yaml.Unmarshal(file, &config) with its error discarded: a document that
\* does not parse leaves config at its zero value; otherwise each yaml key
\* is stored in the struct field its tag names.
Unmarshal(f) ==
    IF ~f.valid THEN ZeroConfig
    ELSE
      [ RdsConfig     |-> [Enabled  |-> f.doc.rds.enabled,
                           Interval |-> f.doc.rds.interval,
                           CacheTTL |-> f.doc.rds.cache_ttl,
                           Regions  |-> f.doc.rds.regions],
        VpcConfig     |-> [Enabled  |-> f.doc.vpc.enabled,
                           Interval |-> f.doc.vpc.interval,
                           CacheTTL |-> f.doc.vpc.cache_ttl,
                           Timeout  |-> f.doc.vpc.timeout,
                           Regions  |-> f.doc.vpc.regions],
        Route53Config |-> [Enabled  |-> f.doc.route53.enabled,
                           Interval |-> f.doc.route53.interval,
                           CacheTTL |-> f.doc.route53.cache_ttl,
                           Timeout  |-> f.doc.route53.timeout,
                           Region   |-> f.doc.route53.region],
        EC2Config     |-> [Enabled  |-> f.doc.ec2.enabled,
                           Interval |-> f.doc.ec2.interval,
                           CacheTTL |-> f.doc.ec2.cache_ttl,
                           Timeout  |-> f.doc.ec2.timeout,
                           Regions  |-> f.doc.ec2.regions] ]

\* Variant: the error of ReadFile is dropped like that of Unmarshal.
ReadFileNeverFails(f) == FALSE

\* ioutil.ReadFile(configFile) returned an error.
ReadFileFails(f) == ~f.readable

\* Variant: the nil test is missing and the default overwrites the field.
OrDefaultOverwrites(field, d) == durationPtr(d)

\* if field == nil { field = durationPtr(d) }
OrDefault(field, d) == IF field = Nil THEN durationPtr(d) ELSE field

\* The eleven defaulting statements of loadExporterConfiguration.
ApplyDefaults(c) ==
    [ RdsConfig     |-> [c.RdsConfig EXCEPT
                           !.CacheTTL = OrDefault(@, DefaultCacheTTL),
                           !.Interval = OrDefault(@, DefaultInterval)],
      VpcConfig     |-> [c.VpcConfig EXCEPT
                           !.CacheTTL = OrDefault(@, DefaultCacheTTL),
                           !.Interval = OrDefault(@, DefaultInterval),
                           !.Timeout  = OrDefault(@, DefaultTimeout)],
      Route53Config |-> [c.Route53Config EXCEPT
                           !.CacheTTL = OrDefault(@, DefaultCacheTTL),
                           !.Interval = OrDefault(@, DefaultInterval),
                           !.Timeout  = OrDefault(@, DefaultTimeout)],
      EC2Config     |-> [c.EC2Config EXCEPT
                           !.CacheTTL = OrDefault(@, DefaultCacheTTL),
                           !.Interval = OrDefault(@, DefaultInterval),
                           !.Timeout  = OrDefault(@, DefaultTimeout)] ]

\* loadExporterConfiguration: (config, err).  config is <<>> for Go's nil.
loadExporterConfiguration(f) ==
    IF ReadFileFails(f)
      THEN [config |-> <<>>, err |-> TRUE]
      ELSE [config |-> <<ApplyDefaults(Unmarshal(f))>>, err |-> FALSE]

----------------------------------------------------------------------------
(* Config files the model reads *)

TimeoutKinds == {"vpc", "route53", "ec2"}

\* A yaml document: one top-level key per kind, with the keys of its struct tags.
Doc(en, ttl, iv, to, rg, r53) ==
    [ rds     |-> [enabled |-> en["rds"], interval |-> iv["rds"],
                   cache_ttl |-> ttl["rds"], regions |-> rg["rds"]],
      vpc     |-> [enabled |-> en["vpc"], interval |-> iv["vpc"],
                   cache_ttl |-> ttl["vpc"], timeout |-> to["vpc"],
                   regions |-> rg["vpc"]],
      route53 |-> [enabled |-> en["route53"], interval |-> iv["route53"],
                   cache_ttl |-> ttl["route53"], timeout |-> to["route53"],
                   region |-> r53],
      ec2     |-> [enabled |-> en["ec2"], interval |-> iv["ec2"],
                   cache_ttl |-> ttl["ec2"], timeout |-> to["ec2"],
                   regions |-> rg["ec2"]] ]

NoneEnabled == [k \in Kinds |-> FALSE]
AllAbsent == [k \in Kinds |-> Nil]
NoRegions == [k \in RegionalKinds |-> <<>>]
EmptyDoc == Doc(NoneEnabled, AllAbsent, AllAbsent, AllAbsent, NoRegions, "")

\* A path that does not exist or cannot be read, and a readable file whose
\* content is not yaml.
MissingFile == [readable |-> FALSE, valid |-> FALSE, doc |-> EmptyDoc]
GarbageFile == [readable |-> TRUE, valid |-> FALSE, doc |-> EmptyDoc]

\* Values written in the file: a cache_ttl below the default interval's
\* scale, an interval above every cache_ttl, and a zero timeout.
CacheTTLChoices == {Nil, <<20>>}
IntervalChoices == {Nil, <<50>>}
TimeoutChoices == {Nil, <<0>>}

\* Files for the defaulting rules: every combination of present and absent
\* duration keys and of the enabled flags.
LoadFiles ==
    { [readable |-> TRUE, valid |-> TRUE,
       doc |-> Doc(en, ttl, iv, to, NoRegions, "us-east-1")] :
        en \in [Kinds -> BOOLEAN], ttl \in [Kinds -> CacheTTLChoices],
        iv \in [Kinds -> IntervalChoices],
        to \in [TimeoutKinds -> TimeoutChoices] }
    \cup {MissingFile, GarbageFile}

RegionLists == {<<>>, <<"us-east-1">>, <<"us-east-1", "us-west-2">>}

\* Files for startup: every combination of enabled flags and region lists,
\* duration keys left to their defaults.
StartupFiles ==
    { [readable |-> TRUE, valid |-> TRUE,
       doc |-> Doc(en, AllAbsent, AllAbsent, AllAbsent, rg, r53)] :
        en \in [Kinds -> BOOLEAN], rg \in [RegionalKinds -> RegionLists],
        r53 \in Regions }
    \cup {MissingFile, GarbageFile}

----------------------------------------------------------------------------
(* Metric Cache keys (one per kind and region, one for the global kind) *)

Keys == {"vpc/us-east-1", "vpc/us-west-2", "route53"}
Snapshots == {"s1", "s2"}

----------------------------------------------------------------------------
(* State after construction: process started, nothing done yet *)

InitWith(files) ==
    /\ file \in files
    /\ pc = "start"
    /\ config = <<>>
    /\ loadErr = FALSE
    /\ loads = 0
    /\ sessions = [k \in Kinds |-> <<>>]
    /\ exporters = [k \in Kinds |-> <<>>]
    /\ collectors = <<>>
    /\ registered = <<>>
    /\ loop = [k \in Kinds |-> "none"]
    /\ launched = [k \in Kinds |-> 0]
    /\ sessionErr = FALSE
    /\ listener = "off"
    /\ srvc = "open"
    /\ notified = FALSE
    /\ term = 0
    /\ exit = <<>>
    /\ scraped = {}
    /\ cache = [key \in Keys |-> <<>>]
    /\ cloop = [key \in Keys |-> "idle"]
    /\ now = 0
    /\ refreshErrors = [key \in Keys |-> 0]
    /\ lastGood = [key \in Keys |-> <<>>]
    /\ consecFails = [key \in Keys |-> 0]

Init == InitWith(StartupFiles)

\* The process is running: run() has not returned, main has not panicked,
\* no signal has killed it.
Alive == pc \notin {"returned", "panicked", "killed"}

----------------------------------------------------------------------------
(* setupCollectors, main.go lines 131-187 *)

\* Variant: WithRegion is missing and every session gets one fixed region.
NewSessionFixedRegion(region) == "us-east-1"

\* session.NewSession(aws.NewConfig().WithRegion(region)): a session is
\* identified by the region it is bound to.
NewSession(region) == region

\* for _, region := range regions { ...; slice = append(slice, sess) },
\* stopped after n regions.
RECURSIVE AppendSessions(_, _, _)
AppendSessions(slice, regions, n) ==
    IF n = 0 THEN slice
    ELSE Append(AppendSessions(slice, regions, n - 1), NewSession(regions[n]))

\* Variant: the error is dropped instead of being passed to session.Must.
MustNeverPanics(failed) == FALSE

\* session.Must: an error from NewSession panics.
MustPanics(failed) == failed

\* Variant: the block is not guarded by the enabled flag.
IsEnabledAlways(kc) == TRUE

\* if config.XConfig.Enabled
IsEnabled(kc) == kc.Enabled

\* Variant: CollectLoop() is called without `go`; main stays inside the
\* endless loop.
AfterGoBlocked(nxt) == "inloop"

\* `go exporter.CollectLoop()`: the statement returns at once and main goes
\* on to its next statement.
AfterGo(nxt) == nxt

\* config, err := loadExporterConfiguration(...); if err != nil { return nil, err }
\* and, in run(), if err != nil { return 1 }.
SetupLoad ==
    /\ pc = "start"
    /\ LET r == loadExporterConfiguration(file) IN
         /\ loads' = loads + 1
         /\ loadErr' = r.err
         /\ config' = r.config
         /\ IF r.err
              THEN pc' = "returned" /\ exit' = <<1>>
              ELSE pc' = "vpc" /\ exit' = exit
    /\ UNCHANGED <<file, sessions, exporters, collectors, registered, loop,
                   launched, sessionErr, listener, srvc, notified, term, scraped>>
    /\ UNCHANGED cacheVars

\* One `if config.XConfig.Enabled { ... }` block of a kind with a regions
\* list.  failAt = 0: every NewSession succeeds; failAt = i: the i-th fails.
SetupRegional(k, kc, nxt) ==
    /\ pc = k
    /\ IF ~IsEnabled(kc)
         THEN /\ pc' = nxt
              /\ UNCHANGED <<sessions, exporters, collectors, loop, launched, exit,
                             sessionErr>>
         ELSE \E failAt \in 0..Len(kc.Regions) :
              /\ sessionErr' = (sessionErr \/ failAt # 0)
              /\ IF MustPanics(failAt # 0)
                  THEN /\ sessions' = [sessions EXCEPT ![k] =
                                AppendSessions(@, kc.Regions, failAt - 1)]
                       /\ pc' = "panicked"
                       /\ exit' = <<2>>
                       /\ UNCHANGED <<exporters, collectors, loop, launched>>
                  ELSE /\ sessions' = [sessions EXCEPT ![k] =
                                AppendSessions(@, kc.Regions, Len(kc.Regions))]
                       /\ exporters' = [exporters EXCEPT ![k] = <<sessions'[k]>>]
                       /\ collectors' = Append(collectors, k)
                       /\ loop' = [loop EXCEPT ![k] = "idle"]
                       /\ launched' = [launched EXCEPT ![k] = @ + 1]
                       /\ pc' = AfterGo(nxt)
                       /\ exit' = exit
    /\ UNCHANGED <<file, config, loadErr, loads, registered, listener, srvc,
                   notified, term, scraped>>
    /\ UNCHANGED cacheVars

SetupVpc == pc = "vpc" /\ SetupRegional("vpc", config[1].VpcConfig, "rds")

SetupRds == pc = "rds" /\ SetupRegional("rds", config[1].RdsConfig, "ec2")

SetupEc2 == pc = "ec2" /\ SetupRegional("ec2", config[1].EC2Config, "route53")

\* The route53 block: one session, from config.Route53Config.Region.
SetupRoute53 ==
    /\ pc = "route53"
    /\ LET kc == config[1].Route53Config IN
       IF ~IsEnabled(kc)
         THEN /\ pc' = "register"
              /\ UNCHANGED <<sessions, exporters, collectors, loop, launched, exit,
                             sessionErr>>
         ELSE \E failed \in BOOLEAN :
              /\ sessionErr' = (sessionErr \/ failed)
              /\ IF MustPanics(failed)
                  THEN /\ pc' = "panicked"
                       /\ exit' = <<2>>
                       /\ UNCHANGED <<sessions, exporters, collectors, loop, launched>>
                  ELSE /\ sessions' = [sessions EXCEPT !["route53"] =
                                <<NewSession(kc.Region)>>]
                       /\ exporters' = [exporters EXCEPT !["route53"] =
                                <<sessions'["route53"]>>]
                       /\ collectors' = Append(collectors, "route53")
                       /\ loop' = [loop EXCEPT !["route53"] = "idle"]
                       /\ launched' = [launched EXCEPT !["route53"] = @ + 1]
                       /\ pc' = AfterGo("register")
                       /\ exit' = exit
    /\ UNCHANGED <<file, config, loadErr, loads, registered, listener, srvc,
                   notified, term, scraped>>
    /\ UNCHANGED cacheVars

----------------------------------------------------------------------------
(* run(), main.go lines 189-250 *)

\* Variant: cs is registered without exporterMetrics appended.
RegisterWithoutSelf ==
    /\ pc = "register"
    /\ collectors' = collectors
    /\ registered' = registered \o collectors'
    /\ pc' = "notify"
    /\ UNCHANGED <<file, config, loadErr, loads, sessions, exporters, loop,
                   launched, sessionErr, listener, srvc, notified, term, exit,
                   scraped>>
    /\ UNCHANGED cacheVars

\* collectors := append(cs, exporterMetrics); prometheus.MustRegister(collectors...)
Register ==
    /\ pc = "register"
    /\ collectors' = Append(collectors, "exporter")
    /\ registered' = registered \o collectors'
    /\ pc' = "notify"
    /\ UNCHANGED <<file, config, loadErr, loads, sessions, exporters, loop,
                   launched, sessionErr, listener, srvc, notified, term, exit,
                   scraped>>
    /\ UNCHANGED cacheVars

\* http.Handle(...), the srv, srvc and term values, signal.Notify(term, ...)
Notify ==
    /\ pc = "notify"
    /\ notified' = TRUE
    /\ pc' = "listen"
    /\ UNCHANGED <<file, config, loadErr, loads, sessions, exporters, collectors,
                   registered, loop, launched, sessionErr, listener, srvc, term, exit,
                   scraped>>
    /\ UNCHANGED cacheVars

\* go func() { ... srv.ListenAndServe() ... }()
StartListener ==
    /\ pc = "listen"
    /\ listener' = "starting"
    /\ pc' = "select"
    /\ UNCHANGED <<file, config, loadErr, loads, sessions, exporters, collectors,
                   registered, loop, launched, sessionErr, srvc, notified, term, exit,
                   scraped>>
    /\ UNCHANGED cacheVars

\* Variant: the two return codes are exchanged.
SelectSwapped ==
    /\ pc = "select"
    /\ \/ /\ term > 0
          /\ term' = term - 1
          /\ exit' = <<1>>
       \/ /\ srvc = "closed"
          /\ term' = term
          /\ exit' = <<0>>
    /\ pc' = "returned"
    /\ UNCHANGED <<file, config, loadErr, loads, sessions, exporters, collectors,
                   registered, loop, launched, sessionErr, listener, srvc, notified,
                   scraped>>
    /\ UNCHANGED cacheVars

\* for { select { case <-term: return 0; case <-srvc: return 1 } }
\* A select with several ready cases takes any one of them.
Select ==
    /\ pc = "select"
    /\ \/ /\ term > 0
          /\ term' = term - 1
          /\ exit' = <<0>>
       \/ /\ srvc = "closed"
          /\ term' = term
          /\ exit' = <<1>>
    /\ pc' = "returned"
    /\ UNCHANGED <<file, config, loadErr, loads, sessions, exporters, collectors,
                   registered, loop, launched, sessionErr, listener, srvc, notified,
                   scraped>>
    /\ UNCHANGED cacheVars

\* The listener goroutine: ListenAndServe either binds and serves, or returns
\* an error (never ErrServerClosed: nothing calls Shutdown or Close), after
\* which the goroutine closes srvc.
ListenAndServe ==
    /\ Alive
    /\ \/ /\ listener = "starting"
          /\ listener' = "serving"
          /\ srvc' = srvc
       \/ /\ listener \in {"starting", "serving"}
          /\ listener' = "failed"
          /\ srvc' = "closed"
    /\ UNCHANGED <<file, scraped, loop, term>>
    /\ UNCHANGED mainVars
    /\ UNCHANGED cacheVars

\* The environment sends SIGINT or SIGTERM.  After signal.Notify the runtime
\* does a non-blocking send on term (capacity 1); before it, the default
\* disposition of the signal ends the process.
Signal ==
    /\ Alive
    /\ IF notified
         THEN /\ term' = IF term < 1 THEN term + 1 ELSE term
              /\ pc' = pc
         ELSE /\ term' = term
              /\ pc' = "killed"
    /\ UNCHANGED <<file, config, loadErr, loads, sessions, exporters, collectors,
                   registered, loop, launched, sessionErr, listener, srvc, notified,
                   exit, scraped>>
    /\ UNCHANGED cacheVars

\* A scrape served by promhttp.Handler(): gathers from every collector in the
\* default registry.
Scrape ==
    /\ Alive
    /\ listener = "serving"
    /\ scraped' = {registered[i] : i \in 1..Len(registered)}
    /\ UNCHANGED <<file, loop, listener, srvc, term>>
    /\ UNCHANGED mainVars
    /\ UNCHANGED cacheVars

\* A kind's CollectLoop goroutine: a tick starts a fetch, the fetch returns
\* (with a result or an error) and the loop waits for the next tick.
LoopTick(k) ==
    /\ Alive
    /\ loop[k] = "idle"
    /\ loop' = [loop EXCEPT ![k] = "fetching"]
    /\ UNCHANGED <<file, listener, srvc, term, scraped>>
    /\ UNCHANGED mainVars
    /\ UNCHANGED cacheVars

LoopFetchReturn(k) ==
    /\ Alive
    /\ loop[k] = "fetching"
    /\ loop' = [loop EXCEPT ![k] = "idle"]
    /\ UNCHANGED <<file, listener, srvc, term, scraped>>
    /\ UNCHANGED mainVars
    /\ UNCHANGED cacheVars

\* The steps of the main goroutine.
MainStep ==
    \/ SetupLoad
    \/ SetupVpc
    \/ SetupRds
    \/ SetupEc2
    \/ SetupRoute53
    \/ Register
    \/ Notify
    \/ StartListener
    \/ Select

Next ==
    \/ MainStep
    \/ ListenAndServe
    \/ Signal
    \/ Scrape
    \/ \E k \in Kinds : LoopTick(k)
    \/ \E k \in Kinds : LoopFetchReturn(k)

Spec == Init /\ [][Next]_vars

\* Files for the progress properties: every combination of enabled flags,
\* with one region list per kind.
FairFiles ==
    { [readable |-> TRUE, valid |-> TRUE,
       doc |-> Doc(en, AllAbsent, AllAbsent, AllAbsent,
                   [k \in RegionalKinds |->
                       IF k = "vpc" THEN <<"us-east-1", "us-west-2">>
                       ELSE <<"us-east-1">>],
                   "us-west-2")] :
        en \in [Kinds -> BOOLEAN] }
    \cup {MissingFile, GarbageFile}

FairInit == InitWith(FairFiles)

\* Scheduling: the main goroutine always gets to run its next statement, and
\* so does every CollectLoop goroutine; a fetch of rds, ec2 or route53
\* returns.  Nothing is assumed of the vpc fetch, which may stay blocked
\* forever, nor of the listener and the environment.
FairSpec ==
    /\ FairInit
    /\ [][Next]_vars
    /\ WF_vars(MainStep)
    /\ \A k \in Kinds : WF_vars(LoopTick(k))
    /\ \A k \in Kinds \ {"vpc"} : WF_vars(LoopFetchReturn(k))

----------------------------------------------------------------------------
(* loadExporterConfiguration on its own, called up to MaxLoads times on the *)
(* same file                                                                *)

MaxLoads == 2

LoadCall ==
    /\ pc = "start"
    /\ loads < MaxLoads
    /\ LET r == loadExporterConfiguration(file) IN
         /\ loads' = loads + 1
         /\ loadErr' = r.err
         /\ config' = r.config
    /\ UNCHANGED <<file, pc, sessions, exporters, collectors, registered, loop,
                   launched, sessionErr, listener, srvc, notified, term, exit, scraped>>
    /\ UNCHANGED cacheVars

LoadInit == InitWith(LoadFiles)

LoadNext == LoadCall

LoadSpec == LoadInit /\ [][LoadNext]_vars

----------------------------------------------------------------------------
(* Metric Cache and refresh loop of one key (design sections 4.3 and 4.4)   *)

MaxTime == 4

\* get(key): the entry last written, <<>> if none was.
Get(c, key) == c[key]

\* put(key, entry): replaces the entry of key.
Put(c, key, entry) == [c EXCEPT ![key] = <<entry>>]

\* The entry a successful fetch writes: value and timestamp.
SuccessEntry(snapshot, t) == [value |-> <<snapshot>>, fetchedAt |-> t, err |-> FALSE]

\* Variant: a failed fetch writes an entry without a value.
FailureEntryErases(prev) == [value |-> <<>>, fetchedAt |-> 0, err |-> TRUE]

\* The entry a failed or timed-out fetch writes: the previous value and
\* timestamp kept, err set.
FailureEntry(prev) ==
    IF prev = <<>>
      THEN [value |-> <<>>, fetchedAt |-> 0, err |-> TRUE]
      ELSE [prev[1] EXCEPT !.err = TRUE]

\* Idle -> Fetching, every interval.
CacheTick(key) ==
    /\ cloop[key] = "idle"
    /\ now < MaxTime
    /\ now' = now + 1
    /\ cloop' = [cloop EXCEPT ![key] = "fetching"]
    /\ UNCHANGED <<cache, refreshErrors, lastGood, consecFails>>
    /\ UNCHANGED <<file, loop, listener, srvc, term, scraped>>
    /\ UNCHANGED mainVars

\* Fetching -> Idle on success.
FetchSucceeds(key, snapshot) ==
    /\ cloop[key] = "fetching"
    /\ cache' = Put(cache, key, SuccessEntry(snapshot, now))
    /\ lastGood' = [lastGood EXCEPT ![key] = <<snapshot>>]
    /\ consecFails' = [consecFails EXCEPT ![key] = 0]
    /\ cloop' = [cloop EXCEPT ![key] = "idle"]
    /\ UNCHANGED <<now, refreshErrors>>
    /\ UNCHANGED <<file, loop, listener, srvc, term, scraped>>
    /\ UNCHANGED mainVars

\* Fetching -> Idle on failure or timeout.
FetchFails(key) ==
    /\ cloop[key] = "fetching"
    /\ cache' = Put(cache, key, FailureEntry(Get(cache, key)))
    /\ refreshErrors' = [refreshErrors EXCEPT ![key] = @ + 1]
    /\ consecFails' = [consecFails EXCEPT ![key] = @ + 1]
    /\ cloop' = [cloop EXCEPT ![key] = "idle"]
    /\ UNCHANGED <<now, lastGood>>
    /\ UNCHANGED <<file, loop, listener, srvc, term, scraped>>
    /\ UNCHANGED mainVars

CacheInit == InitWith({GarbageFile})

CacheNext ==
    \/ \E key \in Keys : CacheTick(key)
    \/ \E key \in Keys, snapshot \in Snapshots : FetchSucceeds(key, snapshot)
    \/ \E key \in Keys : FetchFails(key)

CacheSpec == CacheInit /\ [][CacheNext]_vars

----------------------------------------------------------------------------
(* Properties *)

\* The file on disk asks for kind k: it can be read, it parses, and the
\* kind's `enabled` key is true.
FileEnables(k) == file.readable /\ file.valid /\ file.doc[k].enabled

RegisteredSet == {registered[i] : i \in 1..Len(registered)}
CollectorSet == {collectors[i] : i \in 1..Len(collectors)}

\* C1: a kind whose config has enabled=false never gets a refresh loop, a
\* session, an exporter or a collector (in the local list or the registry),
\* and no scrape gathers from it, whatever the flags of the other kinds.
C1_DisabledKindInert ==
    \A k \in Kinds :
        ~FileEnables(k) =>
            /\ launched[k] = 0
            /\ loop[k] = "none"
            /\ sessions[k] = <<>>
            /\ exporters[k] = <<>>
            /\ k \notin CollectorSet
            /\ k \notin RegisteredSet
            /\ k \notin scraped

\* rds is disabled although it lists regions, vpc is enabled, and a scrape
\* has been served from the registry.
C1_Witness ==
    /\ ~FileEnables("rds")
    /\ FileEnables("vpc")
    /\ file.valid /\ file.doc.rds.regions # <<>>
    /\ pc = "select"
    /\ "vpc" \in scraped

\* What a duration key of the file holds: <<>> when absent (or when the file
\* holds no yaml document).
Written(k, key) == IF file.valid THEN file.doc[k][key] ELSE <<>>

Expected(k, key, default) ==
    IF Written(k, key) = <<>> THEN <<default>> ELSE Written(k, key)

\* C2: after loading a readable file, per kind and whatever the other keys
\* and flags are: cacheTTL is 35s or the written value, interval is 15s or
\* the written value, timeout (vpc, route53, ec2) is 10s or the written
\* value; none is nil; a file with interval > cache_ttl loads without error;
\* a second load of the same file gives the same result, and defaulting the
\* result again changes nothing.
C2_Defaulting ==
    (loads >= 1 /\ file.readable) =>
        /\ ~loadErr
        /\ config # <<>>
        /\ LET c == config[1] IN
             /\ c.RdsConfig.CacheTTL = Expected("rds", "cache_ttl", 35)
             /\ c.VpcConfig.CacheTTL = Expected("vpc", "cache_ttl", 35)
             /\ c.Route53Config.CacheTTL = Expected("route53", "cache_ttl", 35)
             /\ c.EC2Config.CacheTTL = Expected("ec2", "cache_ttl", 35)
             /\ c.RdsConfig.Interval = Expected("rds", "interval", 15)
             /\ c.VpcConfig.Interval = Expected("vpc", "interval", 15)
             /\ c.Route53Config.Interval = Expected("route53", "interval", 15)
             /\ c.EC2Config.Interval = Expected("ec2", "interval", 15)
             /\ c.VpcConfig.Timeout = Expected("vpc", "timeout", 10)
             /\ c.Route53Config.Timeout = Expected("route53", "timeout", 10)
             /\ c.EC2Config.Timeout = Expected("ec2", "timeout", 10)
             /\ \A kc \in {c.RdsConfig, c.VpcConfig, c.Route53Config, c.EC2Config} :
                    kc.CacheTTL # Nil /\ kc.Interval # Nil
             /\ ApplyDefaults(c) = c

\* Loaded twice: vpc has interval 50s > cache_ttl 20s and a zero timeout,
\* rds has neither key, and the kinds are disabled.
C2_Witness ==
    /\ loads = 2
    /\ file.valid
    /\ file.doc.vpc.interval = <<50>> /\ file.doc.vpc.cache_ttl = <<20>>
    /\ file.doc.vpc.timeout = <<0>>
    /\ file.doc.rds.interval = <<>> /\ file.doc.rds.cache_ttl = <<>>
    /\ ~file.doc.vpc.enabled /\ ~file.doc.rds.enabled
    /\ config[1].VpcConfig.Interval = <<50>>
    /\ config[1].VpcConfig.Timeout = <<0>>
    /\ config[1].RdsConfig.CacheTTL = <<35>>

\* C3: with a missing or unreadable config file the first step of main ends
\* the process with status 1; the listener is never started, nothing is
\* registered or collected, no loop is launched.
C3_MissingFileExits1 ==
    ~file.readable =>
        /\ listener = "off"
        /\ registered = <<>>
        /\ collectors = <<>>
        /\ scraped = {}
        /\ \A k \in Kinds : launched[k] = 0 /\ loop[k] = "none" /\ sessions[k] = <<>>
        /\ pc \in {"start", "killed", "returned"}
        /\ pc = "returned" => (exit = <<1>> /\ loadErr)
        /\ exit # <<>> => pc = "returned"

C3_Witness == ~file.readable /\ pc = "returned" /\ exit = <<1>> /\ loads = 1

\* C4: loading a readable file whose content is not yaml returns an error
\* and no Config.
C4_InvalidYamlIsAnError ==
    (loads >= 1 /\ file.readable /\ ~file.valid) => (loadErr /\ config = <<>>)

\* Startup has succeeded: main is past registration.
StartupDone == pc \in {"notify", "listen", "select"} \/ (pc = "returned" /\ ~loadErr)

\* C5: after a successful startup run returns only from the select, with 0
\* when it took a signal from term and with 1 when it found srvc closed, and
\* with nothing else; a signal received while srvc stays open leads to exit
\* status 0, a closed srvc while no signal is received leads to exit status 1.
C5_ExitCode ==
    /\ [][(StartupDone /\ pc' = "returned" /\ pc # "returned") =>
            /\ pc = "select"
            /\ \/ term > 0 /\ exit' = <<0>>
               \/ srvc = "closed" /\ exit' = <<1>>]_vars
    /\ [](StartupDone => exit \in {<<>>, <<0>>, <<1>>})
    /\ (term > 0) ~> (exit = <<0>> \/ srvc = "closed")
    /\ (srvc = "closed") ~> (exit = <<1>> \/ term > 0 \/ exit = <<0>>)

\* run has returned 0 on a signal while the listener was serving.
C5_Witness == pc = "returned" /\ exit = <<0>> /\ listener = "serving" /\ srvc = "open"

\* C6: once a NewSession call of any enabled kind has failed, the process is
\* gone (panic, status 2): the listener was never started, nothing was
\* registered and no scrape was served.
C6_SessionFailureAborts ==
    sessionErr =>
        /\ pc = "panicked"
        /\ exit = <<2>>
        /\ listener = "off"
        /\ registered = <<>>
        /\ scraped = {}

\* The second ec2 region fails after vpc was set up and its loop launched.
C6_Witness ==
    /\ sessionErr
    /\ sessions["ec2"] = <<"us-east-1">>
    /\ file.doc.ec2.regions = <<"us-east-1", "us-west-2">>
    /\ launched["vpc"] = 1

\* C7: the clients handed to an enabled regional kind's exporter are the
\* kind's own regions list, entry by entry and in order; route53's is the one
\* client of its configured region; once built, sessions and client sets
\* never change.
C7_ClientSets ==
    /\ [](\A k \in RegionalKinds :
            /\ exporters[k] # <<>> =>
                 /\ FileEnables(k)
                 /\ exporters[k][1] = file.doc[k].regions
                 /\ sessions[k] = exporters[k][1]
            /\ (launched[k] = 1) <=> (exporters[k] # <<>>))
    /\ [](exporters["route53"] # <<>> =>
            /\ FileEnables("route53")
            /\ exporters["route53"][1] = <<file.doc.route53.region>>)
    /\ [][\A k \in Kinds :
            exporters[k] # <<>> =>
                (exporters'[k] = exporters[k] /\ sessions'[k] = sessions[k])]_vars

\* Three kinds with different region lists, all set up.
C7_Witness ==
    /\ exporters["vpc"] = << <<"us-east-1", "us-west-2">> >>
    /\ exporters["rds"] = << <<"us-east-1">> >>
    /\ exporters["ec2"] = << <<>> >>
    /\ exporters["route53"] = << <<"us-west-2">> >>
    /\ pc = "select"

\* C8: once a successful fetch has written a snapshot for a key, get(key)
\* returns that snapshot after any number of failed fetches, until the next
\* successful fetch.
C8_LastKnownGood ==
    \A key \in Keys :
        lastGood[key] # <<>> =>
            /\ Get(cache, key) # <<>>
            /\ Get(cache, key)[1].value = lastGood[key]

\* Two failures in a row after a success: the entry is marked failed and
\* still holds the snapshot.
C8_Witness ==
    \E key \in Keys :
        /\ consecFails[key] >= 2
        /\ lastGood[key] = <<"s1">>
        /\ Get(cache, key)[1].value = <<"s1">>
        /\ Get(cache, key)[1].err

\* The positions of main after the setup block of kind k.
AfterSetup(k) ==
    CASE k = "vpc" -> {"rds", "ec2", "route53", "register", "notify", "listen", "select"}
      [] k = "rds" -> {"ec2", "route53", "register", "notify", "listen", "select"}
      [] k = "ec2" -> {"route53", "register", "notify", "listen", "select"}
      [] k = "route53" -> {"register", "notify", "listen", "select"}

\* C9: each enabled kind's loop is launched exactly once, as a goroutine of
\* its own; main never waits for it: whatever the loops do (the vpc fetch may
\* never return), main reaches its select with the listener started unless
\* the process ends, the loops of the other kinds keep ticking and fetching,
\* and a signal at the select makes run return.
C9_LoopsIndependent ==
    /\ [](\A k \in Kinds :
            /\ launched[k] <= 1
            /\ (loop[k] # "none") <=> (launched[k] = 1)
            /\ pc \in AfterSetup(k) => (launched[k] = 1 <=> FileEnables(k)))
    /\ (pc \in {"vpc", "rds", "ec2", "route53", "register", "notify", "listen"})
          ~> ((pc = "select" /\ listener # "off") \/ ~Alive)
    /\ \A k \in Kinds \ {"vpc"} :
          /\ (loop[k] = "idle") ~> (loop[k] = "fetching" \/ ~Alive)
          /\ (loop[k] = "fetching") ~> (loop[k] = "idle" \/ ~Alive)
    /\ (pc = "select" /\ term > 0) ~> (pc = "returned")

\* The vpc loop is inside a fetch while main waits at the select, the
\* listener serves and the rds loop is inside a fetch of its own.
C9_Witness ==
    /\ loop["vpc"] = "fetching"
    /\ loop["rds"] = "fetching"
    /\ loop["route53"] = "idle"
    /\ pc = "select"
    /\ listener = "serving"

\* The collectors of the enabled kinds in setup order, then the self-metrics.
ExpectedRegistry ==
    SelectSeq(<<"vpc", "rds", "ec2", "route53">>, FileEnables) \o <<"exporter">>

\* C10: when the listener goroutine exists, the config is loaded, every
\* enabled kind has its clients, its launched loop and its registered
\* collector, and the registry is exactly the enabled kinds' collectors
\* followed by the self-metrics collector, once; this holds after every
\* successful startup, also with no kind enabled; the registry does not
\* change once the listener has been started.
C10_StartupOrder ==
    /\ [](listener # "off" => StartupDone)
    /\ [](StartupDone =>
            /\ config # <<>>
            /\ registered = ExpectedRegistry
            /\ \A k \in Kinds :
                 FileEnables(k) => (exporters[k] # <<>> /\ launched[k] = 1))
    /\ [](pc \in {"start", "vpc", "rds", "ec2", "route53", "register", "panicked"}
            => (registered = <<>> /\ listener = "off"))
    /\ [][listener # "off" => registered' = registered]_vars

\* The listener serves with vpc and route53 enabled.
C10_Witness ==
    /\ listener = "serving"
    /\ registered = <<"vpc", "route53", "exporter">>

\* The listener serves with no kind enabled: only the self-metrics.
C10_WitnessNoneEnabled ==
    /\ listener = "serving"
    /\ registered = <<"exporter">>
    /\ scraped = {"exporter"}

====
